---- MODULE Spec2Model ----
(***************************************************************************)
(* gen-slides: the generation orchestration of src/App.tsx (the React      *)
(* component App and the geminiService functions that follow it in the     *)
(* same file).                                                             *)
(*                                                                         *)
(* React is modelled as follows.  `state` is the component state: every    *)
(* setState(prev => f(prev)) is applied to it in the order it is issued.   *)
(* `view` is the state as of the last render: it is what the closures of   *)
(* the handlers (`state.slides`, `state.designSystemPrompt`) and the       *)
(* disabled props of the buttons read.  `slidesRef` is the mirror          *)
(* slidesRef.current, written by the effect that follows a render (lines   *)
(* 38-40).  An event is a click, a timer callback or the continuation of   *)
(* an awaited call; the updates an event issues are rendered, and the      *)
(* effect run, before the next event is handled.  Within an event the      *)
(* code reads `view` and `slidesRef` as they were before its own updates.  *)
(***************************************************************************)
EXTENDS Integers, Sequences, FiniteSets, Bags, TLC

VARIABLES
  state,            \* ProjectState: step, slides, designSystemPrompt, isProcessing
  view,             \* ProjectState captured by the last render
  slidesRef,        \* slidesRef.current
  isUpdatingStyle,  \* useState isUpdatingStyle
  timers,           \* bag of pending setTimeout callbacks of generateSingleSlideImage
  calls,            \* bag of generateSlideImage calls in flight
  planCalls,        \* number of handleGeneratePlan calls awaiting their result
  styleCall,        \* the handleUpdateGlobalStyle call in flight, or NoCall
  stub,             \* test stub: the slide ids whose synthesis always fails
  errorMsg,         \* useState errorMsg
  refineCalls,      \* bag of handleRefinePrompt calls awaiting refinePrompt
  operation,        \* retryOperation: the operation it wraps
  args,             \* retryOperation: the retries and delayMs of the outer call
  retries,          \* retryOperation: retries of the current call
  delayMs,          \* retryOperation: delayMs of the current call
  pc,               \* retryOperation: where the current call stands
  invoked,          \* history: the outcomes of the invocations of operation
  waited,           \* history: the delays awaited
  result,           \* what the outer call of retryOperation returned or threw
  requests          \* generateSlidePlan: the generateContent calls of this attempt

appVars == <<state, view, slidesRef, isUpdatingStyle, timers, calls, planCalls,
             styleCall, stub, errorMsg, refineCalls>>

svcVars == <<operation, args, retries, delayMs, pc, invoked, waited, result, requests>>

vars == <<appVars, svcVars>>

----------------------------------------------------------------------------
(* Bounds of the model *)

\* longest deck (planner output plus added slides)
MaxSlides == 2
\* timers pending plus generateSlideImage calls in flight when the user
\* starts another one
MaxPending == 2

\* longest deck of the auto-chain scenario
ChainSlides == 3

\* largest slide id the planner assigns in the add-slide scenario
MaxPlanId == 6

\* most retries a caller of retryOperation asks for
MaxRetries == 3

(* Program constants *)

\* line 820: retries = 3
DefaultRetries == 3
\* line 820: delayMs = 3000
DefaultDelayMs == 3000

\* Strings are sequences of characters.
\* the empty string '' of designSystemPrompt, customStylePrompt, response.text
Empty == <<>>
\* non-empty design-system texts
DesignTexts == {<<"a">>, <<"b">>}
\* errorMsg null
Null == "null"
\* generatedImageUrl undefined
NoImage == <<>>
\* line 1062: the data URL of an image payload
DataUrl(data) == <<"data:image/png;base64,", data>>
\* the URLs generateSlideImage resolves with
Images == {DataUrl(1)}
NoCall == [pending |-> FALSE]

----------------------------------------------------------------------------
(* Slides *)

\* a field an object does not have
Undefined == "undefined"

\* line 158: the visual description of an added slide
Placeholder == "Describe the visual structure for this slide in English..."

\* lines 154-160: the SlidePlan handleAddSlide creates.  Of a slide the model
\* keeps the id, the visual description, the user's prompt override, the
\* image and isGenerating; the texts of slides are TLA+ strings.
NewSlide(id) ==
  [id |-> id, visualDescription |-> Placeholder, userPromptOverride |-> Undefined,
   generatedImageUrl |-> NoImage, isGenerating |-> FALSE]

Ids(slides) == {slides[i].id : i \in 1..Len(slides)}

Max(S) == CHOOSE m \in S : \A x \in S : x <= m

\* Array.prototype.findIndex(s => s.id === id), 1-based; 0 stands for -1
FindIndex(slides, id) ==
  IF \E i \in 1..Len(slides) : slides[i].id = id
  THEN CHOOSE i \in 1..Len(slides) :
         /\ slides[i].id = id
         /\ \A j \in 1..(i-1) : slides[j].id # id
  ELSE 0

\* slides.map(s => s.id === id ? { ...s, ...patch } : s)
MapSlide(slides, id, patch) ==
  [i \in 1..Len(slides) |->
     IF slides[i].id = id THEN patch @@ slides[i] ELSE slides[i]]

\* the decks the planner returns: records in the planner's order, ids as the
\* remote model numbered them
PlanDecks == { <<>>, <<NewSlide(2), NewSlide(1)>> }

Idle(s) == s.generatedImageUrl = NoImage /\ ~s.isGenerating

----------------------------------------------------------------------------
(* generateSingleSlideImage *)

NoTarget == 0

\* lines 184-197: the auto-chain skip.  The id the call goes on with, or
\* NoTarget when it returns at the end of the list.
RECURSIVE SkipTarget(_, _)
SkipTarget(currentSlides, id) ==
  LET currentIndex == FindIndex(currentSlides, id) IN
  IF currentIndex # 0 /\ ~Idle(currentSlides[currentIndex])
  THEN IF currentIndex < Len(currentSlides)
       THEN SkipTarget(currentSlides, currentSlides[currentIndex + 1].id)
       ELSE NoTarget
  ELSE id

\* mutant: a skip that reaches the end of the list starts again from the top
TargetWraps(id, autoChain) ==
  LET t == IF autoChain THEN SkipTarget(slidesRef, id) ELSE id
      idle == {i \in 1..Len(slidesRef) : Idle(slidesRef[i])} IN
  IF t # NoTarget /\ FindIndex(slidesRef, t) # 0 THEN t
  ELSE IF autoChain /\ idle # {}
       THEN slidesRef[CHOOSE i \in idle : \A j \in idle : i <= j].id
       ELSE NoTarget

\* mutant: a skipped slide hands over to the slide after it, whatever its status
TargetNextOnly(id, autoChain) ==
  LET currentIndex == FindIndex(slidesRef, id) IN
  IF currentIndex = 0 THEN NoTarget
  ELSE IF autoChain /\ ~Idle(slidesRef[currentIndex])
       THEN IF currentIndex < Len(slidesRef) THEN slidesRef[currentIndex + 1].id
            ELSE NoTarget
       ELSE id

\* the slide a call of generateSingleSlideImage(id, autoChain) generates
Target(id, autoChain) ==
  LET t == IF autoChain THEN SkipTarget(slidesRef, id) ELSE id IN
  IF t # NoTarget /\ FindIndex(slidesRef, t) # 0 THEN t ELSE NoTarget

\* lines 182-216: the synchronous part of generateSingleSlideImage, up to the
\* await.  designSystem is state.designSystemPrompt of the closure that runs.
generateSingleSlideImage(id, autoChain, designSystem) ==
  \E t \in {Target(id, autoChain)} :
  IF t = NoTarget
  THEN UNCHANGED <<state, calls>>
  ELSE /\ state' = [state EXCEPT !.slides = MapSlide(@, t, [isGenerating |-> TRUE])]
       /\ calls' = calls (+) SetToBag({[id |-> t, autoChain |-> autoChain,
                                        designSystem |-> designSystem]})

\* mutant: the chain goes on only when the next slide is not IDLE
ChainTimerInverted(c) ==
  LET currentSlides == slidesRef
      finishedIndex == FindIndex(currentSlides, c.id) IN
  IF /\ c.autoChain
     /\ finishedIndex # 0
     /\ finishedIndex < Len(currentSlides)
     /\ ~Idle(currentSlides[finishedIndex + 1])
  THEN SetToBag({[id |-> currentSlides[finishedIndex + 1].id,
                  designSystem |-> c.designSystem]})
  ELSE EmptyBag

\* mutant: every successful call goes on to the next slide
ChainTimerAlways(c) ==
  LET currentSlides == slidesRef
      finishedIndex == FindIndex(currentSlides, c.id) IN
  IF /\ finishedIndex # 0
     /\ finishedIndex < Len(currentSlides)
     /\ Idle(currentSlides[finishedIndex + 1])
  THEN SetToBag({[id |-> currentSlides[finishedIndex + 1].id,
                  designSystem |-> c.designSystem]})
  ELSE EmptyBag

\* lines 227-243: the timer the auto-chain sets after the call for id succeeded
ChainTimer(c) ==
  LET currentSlides == slidesRef
      finishedIndex == FindIndex(currentSlides, c.id) IN
  IF /\ c.autoChain
     /\ finishedIndex # 0
     /\ finishedIndex < Len(currentSlides)
     /\ Idle(currentSlides[finishedIndex + 1])
  THEN SetToBag({[id |-> currentSlides[finishedIndex + 1].id,
                  designSystem |-> c.designSystem]})
  ELSE EmptyBag

\* lines 38-40: the render that follows an event, and its effect
Rendered == view' = state' /\ slidesRef' = state'.slides

\* timers pending and calls in flight
Pending == BagCardinality(timers) + BagCardinality(calls)

----------------------------------------------------------------------------
(* User events *)

\* lines 101-108, 474-477: the generate button runs handleGeneratePlan up to
\* its first await
GeneratePlanClicked ==
  /\ view.step = "INPUT" /\ ~view.isProcessing
  /\ state' = [state EXCEPT !.isProcessing = TRUE]
  /\ errorMsg' = Null
  /\ planCalls' = planCalls + 1
  /\ Rendered
  /\ UNCHANGED <<isUpdatingStyle, timers, calls, styleCall, stub, refineCalls>>

\* the calls it awaits are left open
GeneratePlanStart == GeneratePlanClicked /\ UNCHANGED svcVars

\* line 418: the user edits the custom style
handleCustomStyleChange(value) ==
  /\ view.step = "INPUT"
  /\ state' = [state EXCEPT !.customStylePrompt = value]
  /\ Rendered
  /\ UNCHANGED <<isUpdatingStyle, timers, calls, planCalls, styleCall, stub, refineCalls, errorMsg,
                 svcVars>>

\* line 493
BackToInput ==
  /\ view.step = "PLANNING"
  /\ state' = [state EXCEPT !.step = "INPUT"]
  /\ Rendered
  /\ UNCHANGED <<isUpdatingStyle, timers, calls, planCalls, styleCall, stub, refineCalls, errorMsg, svcVars>>

\* line 581
BackToPlanning ==
  /\ view.step = "WORKBENCH"
  /\ state' = [state EXCEPT !.step = "PLANNING"]
  /\ Rendered
  /\ UNCHANGED <<isUpdatingStyle, timers, calls, planCalls, styleCall, stub, refineCalls, errorMsg, svcVars>>

\* mutant: the field is written in every slide
handleUpdateSlideAll(id, field, value) ==
  /\ state' = [state EXCEPT !.slides = [i \in 1..Len(@) |-> (field :> value) @@ @[i]]]
  /\ Rendered
  /\ UNCHANGED <<isUpdatingStyle, timers, calls, planCalls, styleCall, stub, refineCalls,
                 errorMsg, svcVars>>

\* lines 145-150: the user edits a field of the slide id
handleUpdateSlide(id, field, value) ==
  /\ state' = [state EXCEPT !.slides = MapSlide(@, id, field :> value)]
  /\ Rendered
  /\ UNCHANGED <<isUpdatingStyle, timers, calls, planCalls, styleCall, stub, refineCalls,
                 errorMsg, svcVars>>

\* lines 552, 728, 742: the fields of the model's slides that the page of
\* the step lets the user edit
EditableFields(step) ==
  CASE step = "PLANNING" -> {"visualDescription"}
    [] step = "WORKBENCH" -> {"visualDescription", "userPromptOverride"}
    [] OTHER -> {}

\* lines 257-261, 543-545: the refine button of the slide id runs
\* handleRefinePrompt up to its await
handleRefinePromptClicked(id) ==
  /\ view.step = "PLANNING" /\ ~view.isProcessing
  /\ FindIndex(view.slides, id) # 0
  /\ LET slide == view.slides[FindIndex(view.slides, id)] IN
     refineCalls' = refineCalls (+)
                      SetToBag({[id |-> id, currentPrompt |-> slide.visualDescription]})
  /\ state' = [state EXCEPT !.isProcessing = TRUE]
  /\ Rendered
  /\ UNCHANGED <<isUpdatingStyle, timers, calls, planCalls, styleCall, stub, errorMsg>>

\* mutant: the refined text is written to every slide
RefineResolvedAll(c, refined) ==
  /\ state' = [state EXCEPT !.isProcessing = FALSE,
                            !.slides = [i \in 1..Len(@) |->
                                          [@[i] EXCEPT !.visualDescription = refined]]]
  /\ refineCalls' = refineCalls (-) SetToBag({c})
  /\ Rendered
  /\ UNCHANGED <<isUpdatingStyle, timers, calls, planCalls, styleCall, stub, errorMsg>>

\* lines 263-264, 267-269: refinePrompt resolved with refined
RefineResolved(c, refined) ==
  /\ state' = [state EXCEPT !.isProcessing = FALSE,
                            !.slides = MapSlide(@, c.id, [visualDescription |-> refined])]
  /\ refineCalls' = refineCalls (-) SetToBag({c})
  /\ Rendered
  /\ UNCHANGED <<isUpdatingStyle, timers, calls, planCalls, styleCall, stub, errorMsg>>

\* lines 265-269: refinePrompt rejected
RefineRejected(c) ==
  /\ state' = [state EXCEPT !.isProcessing = FALSE]
  /\ refineCalls' = refineCalls (-) SetToBag({c})
  /\ Rendered
  /\ UNCHANGED <<isUpdatingStyle, timers, calls, planCalls, styleCall, stub, errorMsg>>

\* mutant: the deck length plus one
NewIdByLength(slides) == Len(slides) + 1

\* line 153
NewId(slides) == IF Len(slides) > 0 THEN Max(Ids(slides)) + 1 ELSE 1

\* mutant: the new slide is put first
handleAddSlidePrepends ==
  /\ view.step = "PLANNING"
  /\ Len(state.slides) < MaxSlides
  /\ state' = [state EXCEPT !.slides = <<NewSlide(NewId(view.slides))>> \o @]
  /\ Rendered
  /\ UNCHANGED <<isUpdatingStyle, timers, calls, planCalls, styleCall, stub, refineCalls, errorMsg, svcVars>>

\* lines 152-165
handleAddSlide ==
  /\ view.step = "PLANNING"
  /\ Len(state.slides) < MaxSlides
  /\ state' = [state EXCEPT !.slides = Append(@, NewSlide(NewId(view.slides)))]
  /\ Rendered
  /\ UNCHANGED <<isUpdatingStyle, timers, calls, planCalls, styleCall, stub, refineCalls, errorMsg, svcVars>>

\* lines 167-180
startWorkbench ==
  /\ view.step = "PLANNING"
  /\ state' = [state EXCEPT !.step = "WORKBENCH", !.isProcessing = FALSE]
  /\ IF Len(view.slides) > 0
     THEN /\ Pending < MaxPending
          /\ timers' = timers (+) SetToBag({[id |-> view.slides[1].id,
                                   designSystem |-> view.designSystemPrompt]})
     ELSE timers' = timers
  /\ Rendered
  /\ UNCHANGED <<isUpdatingStyle, calls, planCalls, styleCall, stub, refineCalls, errorMsg, svcVars>>

\* lines 636-643: the regenerate button of the active slide
RegenerateClicked ==
  /\ view.step = "WORKBENCH"
  /\ \E activeSlideIndex \in 1..Len(view.slides) :
       /\ ~view.slides[activeSlideIndex].isGenerating
       /\ Pending < MaxPending
       /\ generateSingleSlideImage(view.slides[activeSlideIndex].id, FALSE,
                                   view.designSystemPrompt)
  /\ Rendered
  /\ UNCHANGED <<isUpdatingStyle, timers, planCalls, styleCall, stub, refineCalls, errorMsg>>

\* what generateSlideImage does is left open
Regenerate == RegenerateClicked /\ UNCHANGED svcVars

\* lines 272-277, 777-780: the update button runs handleUpdateGlobalStyle up
\* to its await
UpdateGlobalStyleClicked ==
  /\ view.step = "WORKBENCH" /\ ~isUpdatingStyle
  /\ isUpdatingStyle' = TRUE
  /\ styleCall' = [pending |-> TRUE, currentSystem |-> view.designSystemPrompt]
  /\ UNCHANGED <<state, view, slidesRef, timers, calls, planCalls, stub, refineCalls, errorMsg>>

\* the call it awaits is left open
UpdateGlobalStyleStart == UpdateGlobalStyleClicked /\ UNCHANGED svcVars

----------------------------------------------------------------------------
(* Timers, results of awaited calls, renders *)

\* lines 174-176, 238-240: a timer runs generateSingleSlideImage up to its await
TimerFired ==
  /\ \E t \in BagToSet(timers) :
       /\ generateSingleSlideImage(t.id, TRUE, t.designSystem)
       /\ timers' = timers (-) SetToBag({t})
       /\ Rendered
  /\ UNCHANGED <<isUpdatingStyle, planCalls, styleCall, stub, refineCalls, errorMsg>>

\* what generateSlideImage does is left open
TimerFire == TimerFired /\ UNCHANGED svcVars

\* mutant: the override is consumed by the call that used it
SynthesisSuccessClearsOverride(c, imageUrl) ==
  /\ state' = [state EXCEPT !.slides = MapSlide(@, c.id,
                 [generatedImageUrl |-> imageUrl, isGenerating |-> FALSE,
                  userPromptOverride |-> Undefined])]
  /\ calls' = calls (-) SetToBag({c})
  /\ timers' = timers (+) ChainTimer(c)
  /\ Rendered
  /\ UNCHANGED <<isUpdatingStyle, planCalls, styleCall, stub, refineCalls, errorMsg, svcVars>>

\* lines 216-243
SynthesisSuccess(c, imageUrl) ==
  /\ state' = [state EXCEPT !.slides = MapSlide(@, c.id,
                 [generatedImageUrl |-> imageUrl, isGenerating |-> FALSE])]
  /\ calls' = calls (-) SetToBag({c})
  /\ timers' = timers (+) ChainTimer(c)
  /\ Rendered
  /\ UNCHANGED <<isUpdatingStyle, planCalls, styleCall, stub, refineCalls, errorMsg, svcVars>>

\* mutant: the chain goes on after a failure
SynthesisFailureContinues(c) ==
  /\ state' = [state EXCEPT !.slides = MapSlide(@, c.id, [isGenerating |-> FALSE])]
  /\ calls' = calls (-) SetToBag({c})
  /\ timers' = timers (+) ChainTimer(c)
  /\ Rendered
  /\ UNCHANGED <<isUpdatingStyle, planCalls, styleCall, stub, refineCalls, errorMsg, svcVars>>

\* mutant: a failed call resets the slide to a slide without image
SynthesisFailureBlanks(c) ==
  /\ state' = [state EXCEPT !.slides = MapSlide(@, c.id,
                 [generatedImageUrl |-> NoImage, isGenerating |-> FALSE])]
  /\ calls' = calls (-) SetToBag({c})
  /\ Rendered
  /\ UNCHANGED <<isUpdatingStyle, timers, planCalls, styleCall,
                 stub, refineCalls, errorMsg, svcVars>>

\* lines 246-254
SynthesisFailure(c) ==
  /\ state' = [state EXCEPT !.slides = MapSlide(@, c.id, [isGenerating |-> FALSE])]
  /\ calls' = calls (-) SetToBag({c})
  /\ Rendered
  /\ UNCHANGED <<isUpdatingStyle, timers, planCalls, styleCall,
                 stub, refineCalls, errorMsg, svcVars>>

\* mutant: the plan is appended to the deck
GeneratePlanResolvedAppends(plan, designSystem) ==
  /\ planCalls > 0
  /\ state' = [state EXCEPT !.step = "PLANNING", !.slides = state.slides \o plan,
                            !.designSystemPrompt = designSystem,
                            !.isProcessing = FALSE]
  /\ planCalls' = planCalls - 1
  /\ Rendered
  /\ UNCHANGED <<isUpdatingStyle, timers, calls, styleCall, stub, refineCalls, errorMsg>>

\* lines 131-137: generateSlidePlan resolved with plan, the design system of
\* the handler being designSystem
GeneratePlanResolved(plan, designSystem) ==
  /\ planCalls > 0
  /\ state' = [state EXCEPT !.step = "PLANNING", !.slides = plan,
                            !.designSystemPrompt = designSystem,
                            !.isProcessing = FALSE]
  /\ planCalls' = planCalls - 1
  /\ Rendered
  /\ UNCHANGED <<isUpdatingStyle, timers, calls, styleCall, stub, refineCalls, errorMsg>>

\* line 140: error.message || "生成失败，请重试"; an error is written as its message
GenerationFailed == "generation failed, retry"
ErrorMessage(error) == IF error = "" THEN GenerationFailed ELSE error

\* mutant: a failed plan empties the deck
GeneratePlanRejectedClears(error) ==
  /\ planCalls > 0
  /\ errorMsg' = ErrorMessage(error)
  /\ state' = [state EXCEPT !.isProcessing = FALSE, !.slides = <<>>]
  /\ planCalls' = planCalls - 1
  /\ Rendered
  /\ UNCHANGED <<isUpdatingStyle, timers, calls, styleCall, stub, refineCalls>>

\* lines 138-142: generateDesignSystem or generateSlidePlan rejected with error
GeneratePlanRejected(error) ==
  /\ planCalls > 0
  /\ errorMsg' = ErrorMessage(error)
  /\ state' = [state EXCEPT !.isProcessing = FALSE]
  /\ planCalls' = planCalls - 1
  /\ Rendered
  /\ UNCHANGED <<isUpdatingStyle, timers, calls, styleCall, stub, refineCalls>>

\* the errors the awaited calls of handleGeneratePlan reject with
PlanErrors == {"", "Output is not an array"}

\* the awaited calls resolve or reject; what they do is left open
GeneratePlanSuccess ==
  /\ \E plan \in PlanDecks, designSystem \in DesignTexts :
       GeneratePlanResolved(plan, designSystem)
  /\ UNCHANGED svcVars

GeneratePlanFailure ==
  /\ \E error \in PlanErrors : GeneratePlanRejected(error)
  /\ UNCHANGED svcVars

\* mutant: an empty answer blanks the design system
UpdatedSystemBlank(text, currentSystem) == text

\* line 909: response.text || currentSystem
UpdatedSystem(text, currentSystem) == IF text = Empty THEN currentSystem ELSE text

\* mutant: the update discards the images of the deck
UpdateGlobalStyleResolvedResets(newSystem) ==
  /\ styleCall.pending
  /\ state' = [state EXCEPT !.designSystemPrompt = newSystem,
                            !.slides = [i \in 1..Len(@) |->
                                          [@[i] EXCEPT !.generatedImageUrl = NoImage]]]
  /\ isUpdatingStyle' = FALSE
  /\ styleCall' = NoCall
  /\ Rendered
  /\ UNCHANGED <<timers, calls, planCalls, stub, refineCalls, errorMsg>>

\* lines 277-281, 286: updateDesignSystem resolved with newSystem
UpdateGlobalStyleResolved(newSystem) ==
  /\ styleCall.pending
  /\ state' = [state EXCEPT !.designSystemPrompt = newSystem]
  /\ isUpdatingStyle' = FALSE
  /\ styleCall' = NoCall
  /\ Rendered
  /\ UNCHANGED <<timers, calls, planCalls, stub, refineCalls, errorMsg>>

\* mutant: a failed update blanks the design system
UpdateGlobalStyleRejectedBlanks ==
  /\ styleCall.pending
  /\ state' = [state EXCEPT !.designSystemPrompt = Empty]
  /\ isUpdatingStyle' = FALSE
  /\ styleCall' = NoCall
  /\ Rendered
  /\ UNCHANGED <<timers, calls, planCalls, stub, refineCalls, errorMsg>>

\* lines 282-286: updateDesignSystem rejected
UpdateGlobalStyleRejected ==
  /\ styleCall.pending
  /\ isUpdatingStyle' = FALSE
  /\ styleCall' = NoCall
  /\ UNCHANGED <<state, view, slidesRef, timers, calls, planCalls, stub, refineCalls, errorMsg>>

\* the awaited call resolves or rejects; what it does is left open
UpdateGlobalStyleSuccess ==
  /\ \E text \in {Empty} \cup DesignTexts :
       UpdateGlobalStyleResolved(UpdatedSystem(text, styleCall.currentSystem))
  /\ UNCHANGED svcVars

UpdateGlobalStyleFailure == UpdateGlobalStyleRejected /\ UNCHANGED svcVars

----------------------------------------------------------------------------
(* retryOperation, lines 820-831 *)

NoResult == [kind |-> "none"]
Returned(value) == [kind |-> "returned", value |-> value]
Thrown(error) == [kind |-> "thrown", error |-> error]

\* no service call is modelled
ServiceIdle ==
  /\ operation = [kind |-> "none"]
  /\ args = [retries |-> 0, delayMs |-> 0]
  /\ retries = 0
  /\ delayMs = 0
  /\ pc = "idle"
  /\ invoked = <<>>
  /\ waited = <<>>
  /\ result = NoResult
  /\ requests = <<>>

\* a service function calls retryOperation(operation) with the defaults
StartCall(op) ==
  /\ operation' = op
  /\ args' = [retries |-> DefaultRetries, delayMs |-> DefaultDelayMs]
  /\ retries' = DefaultRetries
  /\ delayMs' = DefaultDelayMs
  /\ pc' = "invoke"
  /\ invoked' = <<>>
  /\ waited' = <<>>
  /\ result' = NoResult
  /\ requests' = <<>>

\* mutant: one retry short
RetriesLeftOffByOne(n) == n > 1

\* line 824
RetriesLeft(n) == n > 0

\* line 822: operation() resolved with value
OperationReturns(value) ==
  /\ pc' = "done"
  /\ invoked' = Append(invoked, Returned(value))
  /\ result' = Returned(value)
  /\ UNCHANGED <<operation, args, retries, delayMs, waited>>

\* lines 823-829: operation() rejected with error
OperationThrows(error) ==
  /\ invoked' = Append(invoked, Thrown(error))
  /\ IF RetriesLeft(retries)
     THEN pc' = "delay" /\ result' = result
     ELSE pc' = "done" /\ result' = Thrown(error)
  /\ UNCHANGED <<operation, args, retries, delayMs, waited>>

\* mutant: the delay grows by the initial delay
NextDelayLinear(ms) == ms + DefaultDelayMs

\* line 827: delayMs * 2
NextDelay(ms) == ms * 2

\* lines 826-827: the delay is over and retryOperation calls itself
DelayElapsed ==
  /\ pc = "delay"
  /\ pc' = "invoke"
  /\ waited' = Append(waited, delayMs)
  /\ retries' = retries - 1
  /\ delayMs' = NextDelay(delayMs)
  /\ UNCHANGED <<operation, args, invoked, result, requests, appVars>>

----------------------------------------------------------------------------
(* The remote model *)

\* what ai.models.generateContent answers: it rejects, or resolves with a text
TransportError == [kind |-> "error", message |-> "transport"]
\* an error whose message is empty
SilentError == [kind |-> "error", message |-> ""]
TextResponse(text) == [kind |-> "text", text |-> text]

FlashModel == "gemini-2.5-flash"

\* the generateContent call of a service function and its answer
Request(model, response) ==
  [model |-> model, contents |-> operation.prompt, response |-> response]

----------------------------------------------------------------------------
(* generateDesignSystem, lines 837-878 *)

\* String.prototype.trim over the characters " " and letters
RECURSIVE TrimStart(_)
TrimStart(str) ==
  IF str # <<>> /\ Head(str) = " " THEN TrimStart(Tail(str)) ELSE str

RECURSIVE TrimEnd(_)
TrimEnd(str) ==
  IF str # <<>> /\ str[Len(str)] = " " THEN TrimEnd(SubSeq(str, 1, Len(str) - 1))
  ELSE str

Trim(str) == TrimEnd(TrimStart(str))

\* line 849: the fixed aesthetic used when there is no style hint
PremiumStyle == <<"p">>
\* line 876: the default phrase
DefaultDesignSystem == <<"m">>

\* lines 849-869
DerivePrompt(customStyle) ==
  [task |-> "derive",
   userContext |-> IF customStyle = Empty THEN PremiumStyle ELSE customStyle]

\* mutant: the text of the answer as it is
DerivedSystemRaw(text) == text

\* line 876: response.text || default phrase
DerivedSystem(text) == IF text = Empty THEN DefaultDesignSystem ELSE text

\* lines 871-877: the operation is invoked and the model answers
DeriveInvoked(response) ==
  /\ operation.kind = "derive" /\ pc = "invoke"
  /\ requests' = <<Request(FlashModel, response)>>
  /\ IF response.kind = "error" THEN OperationThrows(response.message)
     ELSE OperationReturns(DerivedSystem(response.text))
  /\ UNCHANGED appVars

----------------------------------------------------------------------------
(* updateDesignSystem, lines 883-911 *)

\* lines 889-902
UpdatePrompt(currentSystem, adjustment) ==
  [task |-> "update", currentSystem |-> currentSystem, adjustment |-> adjustment]

\* lines 904-910: the operation is invoked and the model answers
UpdateInvoked(response) ==
  /\ operation.kind = "update" /\ pc = "invoke"
  /\ requests' = <<Request(FlashModel, response)>>
  /\ IF response.kind = "error" THEN OperationThrows(response.message)
     ELSE OperationReturns(UpdatedSystem(response.text, operation.prompt.currentSystem))
  /\ UNCHANGED appVars

----------------------------------------------------------------------------
(* generateSlidePlan, lines 917-1005 *)

\* JSON texts the model answers with
Garbage == [type |-> "garbage"]
NoText == [type |-> "empty"]
JsonObject == [type |-> "object"]
JsonArray(items) == [type |-> "array", items |-> items]
JsonNull == [type |-> "null"]
RawRecord(id, title, content, visualDescription) ==
  [type |-> "record", id |-> id, title |-> title, content |-> content,
   visualDescription |-> visualDescription, extra |-> "x"]

\* response.text: the body, possibly between ```json and ``` fences
Text(fenced, body) == [fenced |-> fenced, body |-> body]
\* '' or undefined
EmptyText == Text(FALSE, NoText)

\* lines 972-978
Project(item) ==
  [id |-> item.id, title |-> item.title, content |-> item.content,
   visualDescription |-> item.visualDescription, isGenerating |-> FALSE]

\* lines 966-979
parseResponse(text) ==
  LET cleanText == IF text = EmptyText THEN Text(FALSE, JsonArray(<<>>)) ELSE text
      stripped == cleanText.body
  IN CASE stripped.type \in {"garbage", "empty"} -> Thrown("SyntaxError")
       [] stripped.type # "array" -> Thrown("Output is not an array")
       [] \E i \in 1..Len(stripped.items) : stripped.items[i].type = "null" ->
            Thrown("TypeError")
       [] OTHER -> Returned([i \in 1..Len(stripped.items) |-> Project(stripped.items[i])])

\* lines 984-991, 995-1002: the call and the parsing of one tier
TierOutcome(response) ==
  IF response.kind = "error" THEN Thrown(response.message)
  ELSE parseResponse(response.text)

\* lines 929-963: the prompt embeds the design system
PlanPrompt(designSystem) == [task |-> "plan", designSystem |-> designSystem]

\* the deck the application keeps of a plan (lines 972-978: the records have
\* no userPromptOverride and no generatedImageUrl)
PlannedSlides(plan) ==
  [i \in 1..Len(plan) |->
     [id |-> plan[i].id, visualDescription |-> plan[i].visualDescription,
      userPromptOverride |-> Undefined, generatedImageUrl |-> NoImage,
      isGenerating |-> plan[i].isGenerating]]

PrimaryModel == "gemini-3-pro-preview"
FallbackModel == "gemini-2.5-flash"

\* mutant: the attempt fails when the primary model fails
PlanPrimaryNoFallback(response) ==
  /\ operation.kind = "plan" /\ pc = "invoke"
  /\ requests' = <<Request(PrimaryModel, response)>>
  /\ LET o == TierOutcome(response) IN
     IF o.kind = "returned" THEN OperationReturns(o.value) ELSE OperationThrows(o.error)
  /\ UNCHANGED appVars

\* lines 982-993: the operation is invoked and the primary model answers
PlanPrimary(response) ==
  /\ operation.kind = "plan" /\ pc = "invoke"
  /\ requests' = <<Request(PrimaryModel, response)>>
  /\ LET o == TierOutcome(response) IN
     IF o.kind = "returned"
     THEN OperationReturns(o.value)
     ELSE /\ pc' = "fallback"
          /\ UNCHANGED <<operation, args, retries, delayMs, invoked, waited, result>>
  /\ UNCHANGED appVars

\* lines 994-1002: the fallback model answers
PlanFallback(response) ==
  /\ operation.kind = "plan" /\ pc = "fallback"
  /\ requests' = Append(requests, Request(FallbackModel, response))
  /\ LET o == TierOutcome(response) IN
     IF o.kind = "returned" THEN OperationReturns(o.value) ELSE OperationThrows(o.error)
  /\ UNCHANGED appVars

----------------------------------------------------------------------------
(* generateSlideImage, lines 1011-1067 *)

ImageModel == "gemini-3-pro-image-preview"

\* lines 1019-1042: the prompt embeds the design system and the slide
ImagePrompt(id, designSystem) ==
  [task |-> "image", designSystem |-> designSystem, slide |-> id]

\* the parts of a response: text, or inline data
TextPart == [inlineData |-> FALSE]
ImagePart(data) == [inlineData |-> TRUE, data |-> data]
PartsResponse(parts) == [kind |-> "parts", parts |-> parts]
\* a response without candidates
NoCandidates == [kind |-> "nocandidates"]

\* line 1060: response.candidates?.[0]?.content?.parts || []
Parts(response) == IF response.kind = "parts" THEN response.parts ELSE <<>>

\* line 1065
NoImageError == "No image data returned from Gemini"

\* mutant: a response without image resolves with a placeholder
ImageOutcomePlaceholder(response) ==
  IF response.kind = "error" THEN Thrown(response.message)
  ELSE LET parts == Parts(response)
           inline == {i \in 1..Len(parts) : parts[i].inlineData}
       IN IF inline = {} THEN Returned(DataUrl(0))
          ELSE Returned(DataUrl(parts[CHOOSE i \in inline : \A j \in inline : i <= j].data))

\* lines 1046-1065: the call, then the first part that has inline data
ImageOutcome(response) ==
  IF response.kind = "error" THEN Thrown(response.message)
  ELSE LET parts == Parts(response)
           inline == {i \in 1..Len(parts) : parts[i].inlineData}
       IN IF inline = {} THEN Thrown(NoImageError)
          ELSE Returned(DataUrl(parts[CHOOSE i \in inline : \A j \in inline : i <= j].data))

\* lines 1044-1066: the operation is invoked and the model answers
ImageInvoked(response) ==
  /\ operation.kind = "image" /\ pc = "invoke"
  /\ requests' = <<Request(ImageModel, response)>>
  /\ LET o == ImageOutcome(response) IN
     IF o.kind = "returned" THEN OperationReturns(o.value) ELSE OperationThrows(o.error)
  /\ UNCHANGED appVars

----------------------------------------------------------------------------
(* refinePrompt, lines 1072-1079 *)

\* a service function that makes its call without retryOperation
CallDirect(op) ==
  /\ operation' = op
  /\ args' = [retries |-> 0, delayMs |-> 0]
  /\ retries' = 0
  /\ delayMs' = 0
  /\ pc' = "invoke"
  /\ invoked' = <<>>
  /\ waited' = <<>>
  /\ result' = NoResult
  /\ requests' = <<>>

\* line 1076
RefinePrompt(currentPrompt) == [task |-> "refine", currentPrompt |-> currentPrompt]

\* line 1078: response.text || currentPrompt
RefinedPrompt(text, currentPrompt) == IF text = "" THEN currentPrompt ELSE text

\* lines 1074-1078: the model answers the one call refinePrompt makes
RefineInvoked(response) ==
  /\ operation.kind = "refine" /\ pc = "invoke"
  /\ requests' = Append(requests, Request(FlashModel, response))
  /\ IF response.kind = "error"
     THEN /\ pc' = "done"
          /\ invoked' = Append(invoked, Thrown(response.message))
          /\ result' = Thrown(response.message)
          /\ UNCHANGED <<operation, args, retries, delayMs, waited>>
     ELSE OperationReturns(RefinedPrompt(response.text, operation.prompt.currentPrompt))
  /\ UNCHANGED appVars

----------------------------------------------------------------------------
(* The application *)

\* lines 25-34, 37, 49
Init ==
  /\ state = [step |-> "INPUT", slides |-> <<>>, customStylePrompt |-> Empty,
              designSystemPrompt |-> Empty,
              isProcessing |-> FALSE]
  /\ view = state
  /\ slidesRef = <<>>
  /\ isUpdatingStyle = FALSE
  /\ timers = EmptyBag
  /\ calls = EmptyBag
  /\ planCalls = 0
  /\ styleCall = NoCall
  /\ stub = {}
  /\ errorMsg = Null
  /\ refineCalls = EmptyBag
  /\ ServiceIdle

SynthesisSucceeds == \E c \in BagToSet(calls), imageUrl \in Images : SynthesisSuccess(c, imageUrl)
SynthesisFails == \E c \in BagToSet(calls) : SynthesisFailure(c)

Next ==
  \/ GeneratePlanStart
  \/ GeneratePlanSuccess
  \/ GeneratePlanFailure
  \/ BackToInput
  \/ BackToPlanning
  \/ handleAddSlide
  \/ startWorkbench
  \/ Regenerate
  \/ UpdateGlobalStyleStart
  \/ UpdateGlobalStyleSuccess
  \/ UpdateGlobalStyleFailure
  \/ TimerFire
  \/ SynthesisSucceeds
  \/ SynthesisFails

Spec == Init /\ [][Next]_vars

----------------------------------------------------------------------------
(* The auto-chain scenario: a freshly planned deck, all slides IDLE, in the  *)
(* workbench, with the timer of startWorkbench pending for the first slide;  *)
(* the synthesizer is a stub that fails for the ids in `stub` and succeeds   *)
(* for the others; the user does nothing.                                    *)

Deck(n) == [i \in 1..n |-> NewSlide(i)]

ChainInit ==
  \E n \in 1..ChainSlides, designSystem \in DesignTexts :
    /\ state = [step |-> "WORKBENCH", slides |-> Deck(n),
                customStylePrompt |-> Empty,
                designSystemPrompt |-> designSystem, isProcessing |-> FALSE]
    /\ view = state
    /\ slidesRef = state.slides
    /\ isUpdatingStyle = FALSE
    /\ timers = SetToBag({[id |-> state.slides[1].id, designSystem |-> designSystem]})
    /\ calls = EmptyBag
    /\ planCalls = 0
    /\ styleCall = NoCall
    /\ stub \in SUBSET (1..n)
    /\ errorMsg = Null
    /\ refineCalls = EmptyBag
    /\ ServiceIdle

StubSucceeds ==
  \E c \in BagToSet(calls), imageUrl \in Images :
    c.id \notin stub /\ SynthesisSuccess(c, imageUrl)

StubFails == \E c \in BagToSet(calls) : c.id \in stub /\ SynthesisFailure(c)

ChainNext == TimerFire \/ StubSucceeds \/ StubFails

\* timers fire and the stub answers every call
ChainSpec == ChainInit /\ [][ChainNext]_vars /\ WF_vars(ChainNext)

----------------------------------------------------------------------------
(* Vocabulary of the claims *)

Done(s) == s.generatedImageUrl # NoImage /\ ~s.isGenerating

\* generateSlideImage calls in flight for the slide id
InFlight(id) == {c \in BagToSet(calls) : c.id = id}
NumInFlight(id) ==
  LET S == InFlight(id)
      RECURSIVE Sum(_)
      Sum(T) == IF T = {} THEN 0
                ELSE LET c == CHOOSE x \in T : TRUE
                     IN CopiesIn(c, calls) + Sum(T \ {c})
  IN Sum(S)

\* the calls this step starts
StartedNow == {c \in BagToSet(calls') : CopiesIn(c, calls') > CopiesIn(c, calls)}

\* nothing in flight and nothing scheduled
Settled == timers = EmptyBag /\ calls = EmptyBag

AllDone == \A i \in 1..Len(state.slides) : Done(state.slides[i])

\* position of the first slide the stub fails for; past the end if there is none
FirstFailing ==
  IF \E i \in 1..Len(state.slides) : state.slides[i].id \in stub
  THEN CHOOSE i \in 1..Len(state.slides) :
         /\ state.slides[i].id \in stub
         /\ \A j \in 1..(i-1) : state.slides[j].id \notin stub
  ELSE Len(state.slides) + 1

----------------------------------------------------------------------------
(* C1 *)

\* a call starts only when no call is in flight, for the first slide that is
\* not DONE, every later slide being IDLE
StartsInOrder ==
  \A c \in StartedNow :
    LET k == FindIndex(state.slides, c.id) IN
    /\ calls = EmptyBag
    /\ \A i \in 1..Len(state.slides) :
         /\ i < k => Done(state.slides[i])
         /\ i >= k => Idle(state.slides[i])

\* C1: from a deck of slides that are all IDLE, the chained call on the first
\* slide, with a synthesizer that always succeeds, eventually leaves every
\* slide DONE; the calls are started in slide order, and no slide ever has
\* two overlapping calls.
C1_AutoChainSuccess ==
  /\ (stub = {}) ~> (AllDone /\ Settled)
  /\ [][stub = {} => StartsInOrder]_vars
  /\ [](stub = {} => \A i \in 1..Len(state.slides) : NumInFlight(state.slides[i].id) <= 1)

C1_Witness ==
  /\ stub = {} /\ Len(state.slides) = 3 /\ AllDone /\ Settled

----------------------------------------------------------------------------
(* C2 *)

\* the deck once a chain whose stub fails has settled
HaltedAtFailure ==
  \A i \in 1..Len(state.slides) :
    /\ i < FirstFailing => Done(state.slides[i])
    /\ i >= FirstFailing => Idle(state.slides[i])

\* C2: when the synthesis of a slide fails, the settled chain leaves the slides
\* before it DONE, the failed slide IDLE and not generating, the slides after
\* it IDLE; no call is ever started for a slide after it, and the failure
\* schedules no further chained call.
C2_AutoChainHalts ==
  /\ [](Settled => HaltedAtFailure)
  /\ [][\A c \in StartedNow : FindIndex(state.slides, c.id) <= FirstFailing]_vars
  /\ [][(\E c \in BagToSet(calls) : c.id \in stub /\ c \notin BagToSet(calls'))
          => Settled']_vars

C2_Witness ==
  /\ stub = {2} /\ Len(state.slides) = 3 /\ Settled
  /\ Done(state.slides[1]) /\ Idle(state.slides[2]) /\ Idle(state.slides[3])

----------------------------------------------------------------------------
(* C3 *)

\* C3: at most one synthesis call is in flight for any given slide at any
\* time, under every interleaving of manual and chained calls.
C3_OneCallPerSlide ==
  \A i \in 1..Len(state.slides) : NumInFlight(state.slides[i].id) <= 1

----------------------------------------------------------------------------
(* C4 *)

ChainedInFlight == {c \in BagToSet(calls) : c.autoChain}

\* C4: the auto-chain never has synthesis calls for two different slides in
\* flight at the same time.
C4_ChainSequential ==
  \A c, d \in ChainedInFlight : c.id = d.id

----------------------------------------------------------------------------
(* C8 *)

\* C8: every synthesis call is issued with the design system the session
\* holds at the moment the call is started.
C8_DesignSystemAtCallTime ==
  [][\A c \in StartedNow : c.designSystem = state.designSystemPrompt]_vars

----------------------------------------------------------------------------
(* C9 *)

\* C9: a slide's isGenerating is true if and only if a synthesis call for
\* that slide is in flight.
C9_GeneratingIffInFlight ==
  \A i \in 1..Len(state.slides) :
    state.slides[i].isGenerating <=> InFlight(state.slides[i].id) # {}

----------------------------------------------------------------------------
(* The add-slide scenario: the outline page shows a deck whose ids are any   *)
(* distinct numbers the planner assigned, in any order, some slides already  *)
(* rendered; the user adds slides.                                           *)

\* decks of at most MaxSlides slides with distinct ids
OutlineDecks ==
  { d \in UNION { [1..n -> [id : 1..MaxPlanId,
                            visualDescription : {Placeholder},
                            userPromptOverride : {Undefined},
                            generatedImageUrl : {NoImage} \cup Images,
                            isGenerating : {FALSE}]] : n \in 0..MaxSlides } :
      \A i, j \in 1..Len(d) : i # j => d[i].id # d[j].id }

AddInit ==
  /\ \E d \in OutlineDecks :
       state = [step |-> "PLANNING", slides |-> d, customStylePrompt |-> Empty,
                designSystemPrompt |-> <<"a">>,
                isProcessing |-> FALSE]
  /\ view = state
  /\ slidesRef = state.slides
  /\ isUpdatingStyle = FALSE
  /\ timers = EmptyBag
  /\ calls = EmptyBag
  /\ planCalls = 0
  /\ styleCall = NoCall
  /\ stub = {}
  /\ errorMsg = Null
  /\ refineCalls = EmptyBag
  /\ ServiceIdle

AddNext == handleAddSlide

AddSpec == AddInit /\ [][AddNext]_vars

----------------------------------------------------------------------------
(* C7 *)

DistinctIds(slides) ==
  \A i, j \in 1..Len(slides) : i # j => slides[i].id # slides[j].id

\* the step appends one slide to the deck
Appends ==
  /\ Len(state'.slides) = Len(state.slides) + 1
  /\ SubSeq(state'.slides, 1, Len(state.slides)) = state.slides

----------------------------------------------------------------------------
(* The retry scenario: retryOperation wraps a stub whose k-th invocation     *)
(* has the k-th outcome of a fixed list.                                     *)

Values == {1, 2}
Errors == {1, 2}
Outcomes == {Returned(v) : v \in Values} \cup {Thrown(e) : e \in Errors}

RetryInit ==
  /\ \E os \in [1..(MaxRetries + 1) -> Outcomes] :
       operation = [kind |-> "stub", outcomes |-> os]
  /\ \E n \in 0..MaxRetries : args = [retries |-> n, delayMs |-> DefaultDelayMs]
  /\ retries = args.retries
  /\ delayMs = args.delayMs
  /\ pc = "invoke"
  /\ invoked = <<>>
  /\ waited = <<>>
  /\ result = NoResult
  /\ requests = <<>>
  /\ state = [step |-> "INPUT", slides |-> <<>>, customStylePrompt |-> Empty,
              designSystemPrompt |-> Empty,
              isProcessing |-> FALSE]
  /\ view = state
  /\ slidesRef = <<>>
  /\ isUpdatingStyle = FALSE
  /\ timers = EmptyBag
  /\ calls = EmptyBag
  /\ planCalls = 0
  /\ styleCall = NoCall
  /\ stub = {}
  /\ errorMsg = Null
  /\ refineCalls = EmptyBag

\* line 822: the stub is invoked and answers
StubInvoked ==
  /\ operation.kind = "stub" /\ pc = "invoke"
  /\ LET o == operation.outcomes[Len(invoked) + 1] IN
     IF o.kind = "returned" THEN OperationReturns(o.value) ELSE OperationThrows(o.error)
  /\ UNCHANGED <<requests, appVars>>

RetryNext == StubInvoked \/ DelayElapsed

RetrySpec == RetryInit /\ [][RetryNext]_vars

----------------------------------------------------------------------------
(* C5, C6 *)

\* the stub fails its first n invocations and succeeds at the next
FailsThenSucceeds(n) ==
  /\ n + 1 <= Len(operation.outcomes)
  /\ \A k \in 1..n : operation.outcomes[k].kind = "thrown"
  /\ operation.outcomes[n + 1].kind = "returned"

AlwaysFails == \A k \in 1..Len(operation.outcomes) : operation.outcomes[k].kind = "thrown"

maxAttempts == args.retries + 1

\* C5: for an operation that fails exactly N times and then succeeds, with
\* maxAttempts > N, retryOperation returns the operation's success value and
\* invokes the operation exactly N + 1 times.
C5_RetrySucceeds ==
  \A n \in 0..MaxRetries :
    FailsThenSucceeds(n) /\ maxAttempts > n =>
      /\ Len(invoked) <= n + 1
      /\ result.kind # "thrown"
      /\ pc = "done" => /\ result = Returned(operation.outcomes[n + 1].value)
                        /\ Len(invoked) = n + 1

C5_Witness ==
  /\ FailsThenSucceeds(DefaultRetries) /\ args.retries = DefaultRetries
  /\ pc = "done" /\ result.kind = "returned" /\ Len(invoked) = DefaultRetries + 1

\* C6: for an operation that always fails, retryOperation invokes it exactly
\* maxAttempts times and then throws the error of the last invocation.
C6_RetryExhausted ==
  AlwaysFails =>
    /\ Len(invoked) <= maxAttempts
    /\ result.kind # "returned"
    /\ pc = "done" => /\ Len(invoked) = maxAttempts
                      /\ result = Thrown(operation.outcomes[maxAttempts].error)

\* the default budget is exhausted and the last error differs from the first
C6_Witness ==
  /\ AlwaysFails /\ args.retries = DefaultRetries /\ pc = "done"
  /\ Len(invoked) = DefaultRetries + 1
  /\ result.kind = "thrown"
  /\ result.error # operation.outcomes[1].error

----------------------------------------------------------------------------
(* The planning scenario: one call of generateSlidePlan; each model call is  *)
(* rejected or answers one of the texts below.                               *)

Prompts == {1, 2}

CompleteRecords ==
  <<RawRecord(1, "t1", "c1", "v1"), RawRecord(2, "t2", "c2", "v2")>>

Texts ==
  { EmptyText,
    Text(TRUE, NoText),
    Text(FALSE, Garbage),
    Text(FALSE, JsonObject),
    Text(FALSE, JsonArray(CompleteRecords)),
    Text(TRUE, JsonArray(CompleteRecords)),
    Text(FALSE, JsonArray(<<RawRecord(1, Undefined, "c1", "v1")>>)),
    Text(FALSE, JsonArray(<<JsonNull>>)) }

Responses == {TransportError, SilentError} \cup {TextResponse(t) : t \in Texts}

PlanInit ==
  /\ \E prompt \in Prompts : operation = [kind |-> "plan", prompt |-> prompt]
  /\ args = [retries |-> DefaultRetries, delayMs |-> DefaultDelayMs]
  /\ retries = args.retries
  /\ delayMs = args.delayMs
  /\ pc = "invoke"
  /\ invoked = <<>>
  /\ waited = <<>>
  /\ result = NoResult
  /\ requests = <<>>
  /\ state = [step |-> "INPUT", slides |-> <<>>, customStylePrompt |-> Empty,
              designSystemPrompt |-> Empty,
              isProcessing |-> TRUE]
  /\ view = state
  /\ slidesRef = <<>>
  /\ isUpdatingStyle = FALSE
  /\ timers = EmptyBag
  /\ calls = EmptyBag
  /\ planCalls = 1
  /\ styleCall = NoCall
  /\ stub = {}
  /\ errorMsg = Null
  /\ refineCalls = EmptyBag

PrimaryAnswers == \E response \in Responses : PlanPrimary(response)
FallbackAnswers == \E response \in Responses : PlanFallback(response)

PlanNext == PrimaryAnswers \/ FallbackAnswers \/ DelayElapsed

PlanSpec == PlanInit /\ [][PlanNext]_vars

----------------------------------------------------------------------------
(* C10 *)

\* the tier's call was rejected, or its text does not parse to a list of records
TierFailed(request) ==
  \/ request.response.kind = "error"
  \/ request.response.text.body.type \in {"empty", "garbage", "object"}
       /\ request.response.text # EmptyText
  \/ /\ request.response.text.body.type = "array"
     /\ \E i \in 1..Len(request.response.text.body.items) :
          request.response.text.body.items[i].type = "null"

\* the planning attempt is over
AttemptOver == pc \in {"delay", "done"}

\* C10: within one planning attempt the primary model is called first; if it
\* fails for any reason the fallback model is called exactly once with the
\* same prompt; the attempt succeeds with the first tier that succeeds and
\* fails only if both tiers fail.
C10_TwoTierFallback ==
  pc # "invoke" =>
    /\ Len(requests) \in {1, 2}
    /\ requests[1].model = PrimaryModel
    /\ \A k \in 1..Len(requests) : requests[k].contents = operation.prompt
    /\ Len(requests) = 2 => requests[2].model = FallbackModel /\ TierFailed(requests[1])
    /\ (Len(requests) = 1 /\ TierFailed(requests[1])) <=> pc = "fallback"
    /\ AttemptOver =>
         LET last == invoked[Len(invoked)] IN
         /\ last.kind = "returned" <=> ~TierFailed(requests[Len(requests)])
         /\ last.kind = "thrown" <=>
              (Len(requests) = 2 /\ TierFailed(requests[1]) /\ TierFailed(requests[2]))

\* the primary model answered something that is not a list, the fallback a list
C10_Witness ==
  /\ pc = "done" /\ result.kind = "returned"
  /\ Len(requests) = 2
  /\ requests[1].response = TextResponse(Text(FALSE, JsonObject))
  /\ requests[2].response = TextResponse(Text(TRUE, JsonArray(CompleteRecords)))

----------------------------------------------------------------------------
(* C11 *)

\* generateContent calls made to the primary model since the plan call began:
\* one per attempt started
PrimaryCalls == IF pc = "invoke" THEN Len(waited) ELSE Len(waited) + 1

\* the fallback model has been called
FallbackCalled == Len(requests) = 2

\* C11: the primary tier is retried up to its own retry budget before the
\* fallback tier is invoked for the first time.
C11_TierRetryBudgets ==
  FallbackCalled => PrimaryCalls >= args.retries + 1

----------------------------------------------------------------------------
(* The outline scenario: the input page; the user edits the custom style,    *)
(* generates the outline and comes back from the outline page; the calls     *)
(* handleGeneratePlan awaits run through retryOperation and the remote model *)
(* rejects or answers.                                                       *)

CustomStyles == {Empty, <<" ">>, <<"a">>, <<" ", "a">>, <<"a", " ">>}

OutlineResponses ==
  {TransportError, SilentError, TextResponse(Text(FALSE, JsonArray(CompleteRecords)))}

DeriveResponses ==
  {TransportError, SilentError} \cup {TextResponse(t) : t \in {Empty, <<"b">>}}

CustomStyleEdited == \E value \in CustomStyles : handleCustomStyleChange(value)

\* lines 101-124: the click, up to the first call the handler awaits
GeneratePlanCalls ==
  /\ GeneratePlanClicked
  /\ LET designSystem == Trim(view.customStylePrompt) IN
     IF designSystem = Empty
     THEN StartCall([kind |-> "derive", prompt |-> DerivePrompt(view.customStylePrompt)])
     ELSE StartCall([kind |-> "plan", prompt |-> PlanPrompt(designSystem)])

DeriveAnswers == \E response \in DeriveResponses : DeriveInvoked(response)

\* lines 117-129: generateDesignSystem resolved, generateSlidePlan is called
DeriveResolved ==
  /\ planCalls > 0
  /\ operation.kind = "derive" /\ pc = "done" /\ result.kind = "returned"
  /\ StartCall([kind |-> "plan", prompt |-> PlanPrompt(result.value)])
  /\ UNCHANGED appVars

\* lines 117, 138-142: generateDesignSystem rejected
DeriveRejected ==
  /\ operation.kind = "derive" /\ pc = "done" /\ result.kind = "thrown"
  /\ GeneratePlanRejected(result.error)
  /\ UNCHANGED svcVars

OutlinePrimaryAnswers == \E response \in OutlineResponses : PlanPrimary(response)
OutlineFallbackAnswers == \E response \in OutlineResponses : PlanFallback(response)

\* lines 124-137: generateSlidePlan resolved
PlanResolved ==
  /\ operation.kind = "plan" /\ pc = "done" /\ result.kind = "returned"
  /\ GeneratePlanResolved(PlannedSlides(result.value), operation.prompt.designSystem)
  /\ UNCHANGED svcVars

\* lines 124, 138-142: generateSlidePlan rejected
PlanRejected ==
  /\ operation.kind = "plan" /\ pc = "done" /\ result.kind = "thrown"
  /\ GeneratePlanRejected(result.error)
  /\ UNCHANGED svcVars

OutlineNext ==
  \/ CustomStyleEdited
  \/ GeneratePlanCalls
  \/ DeriveAnswers
  \/ DeriveResolved
  \/ DeriveRejected
  \/ OutlinePrimaryAnswers
  \/ OutlineFallbackAnswers
  \/ DelayElapsed
  \/ PlanResolved
  \/ PlanRejected
  \/ BackToInput

OutlineSpec == Init /\ [][OutlineNext]_vars

----------------------------------------------------------------------------
(* C12 *)

\* the step ends a handleGeneratePlan call with an error
OutlineFails == planCalls' < planCalls /\ result.kind = "thrown"

\* C12: when design-system derivation or planning fails, the step stays
\* INPUT, the deck and the design-system text keep the values they had before
\* the call (no step between the click and the failure changes them),
\* isProcessing returns to false and a non-empty error message is shown.
C12_OutlineFailureKeepsState ==
  /\ [][OutlineFails =>
          /\ state.step = "INPUT" /\ state'.step = "INPUT"
          /\ state'.slides = state.slides
          /\ state'.designSystemPrompt = state.designSystemPrompt
          /\ state.isProcessing /\ ~state'.isProcessing
          /\ errorMsg' \notin {Null, ""}]_vars
  /\ [][planCalls > 0 /\ planCalls' > 0 =>
          /\ state'.step = "INPUT"
          /\ state'.slides = state.slides
          /\ state'.designSystemPrompt = state.designSystemPrompt]_vars

\* the derivation failed with an empty message after all its retries, on the
\* input page the user came back to with a planned deck
C12_Witness ==
  /\ operation.kind = "derive" /\ result = Thrown("") /\ Len(invoked) = DefaultRetries + 1
  /\ planCalls = 0
  /\ state.step = "INPUT" /\ state.slides # <<>> /\ state.designSystemPrompt # Empty
  /\ ~state.isProcessing /\ errorMsg = GenerationFailed

----------------------------------------------------------------------------
(* C13 *)

\* the field is there and is not the empty string
Present(field) == field \notin {Undefined, ""}

\* C13: a successful plan never contains a slide whose title, content or
\* visualDescription is missing or empty.
C13_MissingFieldsFail ==
  result.kind = "returned" =>
    \A i \in 1..Len(result.value) :
      /\ Present(result.value[i].title)
      /\ Present(result.value[i].content)
      /\ Present(result.value[i].visualDescription)

----------------------------------------------------------------------------
(* C14 *)

\* C14: an empty planner response never yields a successful deck.
C14_NoSilentDefault ==
  result.kind = "returned" =>
    requests[Len(requests)].response.text # EmptyText

----------------------------------------------------------------------------
(* C15 *)

\* the step is the click that starts handleGeneratePlan
OutlineStarts == planCalls' > planCalls

\* C15: when the custom style is non-empty, no derivation call is made and the
\* design system planning is called with is the custom style, verbatim.
C15_CustomStyleVerbatim ==
  [][OutlineStarts /\ state.customStylePrompt # Empty =>
       /\ operation'.kind = "plan"
       /\ operation'.prompt.designSystem = state.customStylePrompt]_vars

----------------------------------------------------------------------------
(* The style scenario: the workbench of a planned deck of two slides while   *)
(* the auto-chain runs; the user regenerates slides and updates the global   *)
(* style; updateDesignSystem runs through retryOperation and the remote      *)
(* model rejects or answers.                                                 *)

Adjustments == {<<"w">>}

UpdateResponses == {TransportError} \cup {TextResponse(t) : t \in {Empty, <<"b">>}}

StyleInit ==
  /\ state = [step |-> "WORKBENCH", slides |-> Deck(2), customStylePrompt |-> Empty,
              designSystemPrompt |-> <<"a">>, isProcessing |-> FALSE]
  /\ view = state
  /\ slidesRef = state.slides
  /\ isUpdatingStyle = FALSE
  /\ timers = SetToBag({[id |-> state.slides[1].id,
                         designSystem |-> state.designSystemPrompt]})
  /\ calls = EmptyBag
  /\ planCalls = 0
  /\ styleCall = NoCall
  /\ stub = {}
  /\ errorMsg = Null
  /\ refineCalls = EmptyBag
  /\ ServiceIdle

\* lines 272-277: the click, up to the call the handler awaits
UpdateGlobalStyleCalls ==
  /\ UpdateGlobalStyleClicked
  /\ \E styleAdjustment \in Adjustments :
       StartCall([kind |-> "update",
                  prompt |-> UpdatePrompt(view.designSystemPrompt, styleAdjustment)])

UpdateAnswers == \E response \in UpdateResponses : UpdateInvoked(response)

\* lines 277-281
UpdateResolved ==
  /\ operation.kind = "update" /\ pc = "done" /\ result.kind = "returned"
  /\ UpdateGlobalStyleResolved(result.value)
  /\ UNCHANGED svcVars

\* lines 282-286
UpdateRejected ==
  /\ operation.kind = "update" /\ pc = "done" /\ result.kind = "thrown"
  /\ UpdateGlobalStyleRejected
  /\ UNCHANGED svcVars

StyleNext ==
  \/ TimerFire
  \/ SynthesisSucceeds
  \/ SynthesisFails
  \/ Regenerate
  \/ UpdateGlobalStyleCalls
  \/ UpdateAnswers
  \/ DelayElapsed
  \/ UpdateResolved
  \/ UpdateRejected

StyleSpec == StyleInit /\ [][StyleNext]_vars

\* the step ends a handleUpdateGlobalStyle call
UpdateEnds == styleCall.pending /\ ~styleCall'.pending

\* the answer of the remote model to the last attempt of the update
LastAnswer == requests[1].response

----------------------------------------------------------------------------
(* C16 *)

\* C16: when the remote call of update(current, adjustment) answers with empty
\* text, update returns current, and the design system of the session after
\* updateGlobalStyle is the one it had before.
C16_UpdateEmptyIsNoOp ==
  /\ [][UpdateEnds /\ LastAnswer = TextResponse(Empty) =>
          /\ result = Returned(operation.prompt.currentSystem)
          /\ state'.designSystemPrompt = state.designSystemPrompt]_vars
  /\ [](styleCall.pending =>
          /\ operation.prompt.currentSystem = styleCall.currentSystem
          /\ state.designSystemPrompt = styleCall.currentSystem)

\* a second update, of the design system "b" an earlier update installed, was
\* answered with empty text after a failed attempt
C16_Witness ==
  /\ operation.kind = "update" /\ pc = "done" /\ ~styleCall.pending
  /\ Len(invoked) = 2 /\ LastAnswer = TextResponse(Empty)
  /\ operation.prompt.currentSystem = <<"b">>
  /\ state.designSystemPrompt = <<"b">>

----------------------------------------------------------------------------
(* C17 *)

\* C17: a successful updateGlobalStyle replaces the design system of the
\* session with the returned text and changes nothing else: no slide changes,
\* no synthesis call is started and none is scheduled.
C17_UpdateStyleFrame ==
  [][UpdateEnds /\ result.kind = "returned" =>
       /\ state'.designSystemPrompt = result.value
       /\ state' = [state EXCEPT !.designSystemPrompt = result.value]
       /\ calls' = calls
       /\ timers' = timers]_vars

\* the update installed "b" while the first slide had its image and a call
\* for the second was in flight
C17_Witness ==
  /\ operation.kind = "update" /\ pc = "done" /\ ~styleCall.pending
  /\ result = Returned(<<"b">>) /\ state.designSystemPrompt = <<"b">>
  /\ operation.prompt.currentSystem = <<"a">>
  /\ Done(state.slides[1]) /\ state.slides[2].isGenerating
  /\ InFlight(2) # {}

----------------------------------------------------------------------------
(* C18 *)

\* C18: when the update call fails after its retries are used up, the design
\* system of the session is the one it had before updateGlobalStyle was
\* called, and the updating flag is cleared.
C18_UpdateFailureKeepsStyle ==
  [][UpdateEnds /\ result.kind = "thrown" =>
       /\ Len(invoked) = DefaultRetries + 1
       /\ state'.designSystemPrompt = styleCall.currentSystem
       /\ state'.designSystemPrompt = state.designSystemPrompt
       /\ isUpdatingStyle /\ ~isUpdatingStyle']_vars

\* an update of the design system "b" failed four times
C18_Witness ==
  /\ operation.kind = "update" /\ pc = "done" /\ ~styleCall.pending
  /\ result.kind = "thrown" /\ Len(invoked) = DefaultRetries + 1
  /\ operation.prompt.currentSystem = <<"b">>
  /\ state.designSystemPrompt = <<"b">> /\ ~isUpdatingStyle

----------------------------------------------------------------------------
(* C19 *)

\* auto-chains that are active: a chained call is scheduled or in flight
ActiveChains ==
  BagCardinality(timers) + Cardinality({c \in BagToSet(calls) : c.autoChain})

\* C19: entering the workbench never results in more than one auto-chain
\* being active.
C19_OneChainPerSession == ActiveChains <= 1

----------------------------------------------------------------------------
(* The synthesis scenario: the workbench of a planned deck of two slides,    *)
(* the timer of startWorkbench pending; generateSlideImage runs through      *)
(* retryOperation and the image model rejects or answers with parts; the     *)
(* user regenerates a slide only when nothing is scheduled or in flight, so  *)
(* that one generateSlideImage call runs at a time.                          *)

ImageResponses ==
  { TransportError, NoCandidates, PartsResponse(<<>>), PartsResponse(<<TextPart>>),
    PartsResponse(<<TextPart, ImagePart(1)>>),
    PartsResponse(<<ImagePart(2), ImagePart(1)>>) }

\* line 216: the call generateSingleSlideImage has just started, if any
ImageCallStarts ==
  IF calls' = calls THEN UNCHANGED svcVars
  ELSE \E c \in BagToSet(calls') :
         StartCall([kind |-> "image", prompt |-> ImagePrompt(c.id, c.designSystem)])

ChainCalls == calls = EmptyBag /\ TimerFired /\ ImageCallStarts

RegenerateCalls ==
  /\ timers = EmptyBag /\ calls = EmptyBag
  /\ RegenerateClicked
  /\ ImageCallStarts

ImageAnswers == \E response \in ImageResponses : ImageInvoked(response)

\* lines 216-243
ImageResolved ==
  /\ operation.kind = "image" /\ pc = "done" /\ result.kind = "returned"
  /\ \E c \in BagToSet(calls) : SynthesisSuccess(c, result.value)

\* lines 246-254
ImageRejected ==
  /\ operation.kind = "image" /\ pc = "done" /\ result.kind = "thrown"
  /\ \E c \in BagToSet(calls) : SynthesisFailure(c)

SynthNext ==
  \/ ChainCalls
  \/ RegenerateCalls
  \/ ImageAnswers
  \/ DelayElapsed
  \/ ImageResolved
  \/ ImageRejected

SynthSpec == StyleInit /\ [][SynthNext]_vars

----------------------------------------------------------------------------
(* C20 *)

\* the backend responded, without any inline image part
NoInlineImage(response) ==
  /\ response.kind # "error"
  /\ \A i \in 1..Len(Parts(response)) : ~Parts(response)[i].inlineData

\* the step is the answer to an attempt of the operation
Attempted == Len(invoked') = Len(invoked) + 1

\* the step ends a generateSlideImage call
SynthesisEnds == calls # EmptyBag /\ calls' = EmptyBag

\* C20: a response without inline image part makes the attempt fail, and the
\* attempt is retried like any other failure; synthesize never returns for
\* such a response; when the call fails for it, no slide's generatedImageUrl
\* is set and the slide is no longer generating.
C20_NoImageIsFailure ==
  /\ [][Attempted /\ NoInlineImage(requests'[1].response) =>
          /\ invoked'[Len(invoked')] = Thrown(NoImageError)
          /\ pc' = IF retries > 0 THEN "delay" ELSE "done"
          /\ result' = IF retries > 0 THEN NoResult ELSE Thrown(NoImageError)]_vars
  /\ [](result.kind = "returned" => ~NoInlineImage(requests[1].response))
  /\ [][SynthesisEnds /\ result.kind = "thrown" =>
          \A i \in 1..Len(state.slides) :
            /\ state'.slides[i].generatedImageUrl = state.slides[i].generatedImageUrl
            /\ ~state'.slides[i].isGenerating]_vars

\* the image model answered four times without an image, the last time with
\* a text part only: the call failed and the deck has no image
C20_Witness ==
  /\ operation.kind = "image" /\ pc = "done" /\ calls = EmptyBag
  /\ result = Thrown(NoImageError)
  /\ invoked = [k \in 1..(DefaultRetries + 1) |-> Thrown(NoImageError)]
  /\ requests[1].response = PartsResponse(<<TextPart>>)
  /\ \A i \in 1..Len(state.slides) : Idle(state.slides[i])

----------------------------------------------------------------------------
(* The refine scenario: the outline page of a freshly planned deck; the user *)
(* edits descriptions, adds slides and refines one description at a time;    *)
(* refinePrompt is run against a remote model that rejects or answers.       *)

\* the deck planned from the first record of CompleteRecords
PlannedDeck == PlannedSlides(parseResponse(Text(FALSE, JsonArray(<<CompleteRecords[1]>>))).value)

WorkshopInit ==
  /\ state = [step |-> "PLANNING", slides |-> PlannedDeck, customStylePrompt |-> Empty,
              designSystemPrompt |-> <<"a">>, isProcessing |-> FALSE]
  /\ view = state
  /\ slidesRef = state.slides
  /\ isUpdatingStyle = FALSE
  /\ timers = EmptyBag
  /\ calls = EmptyBag
  /\ planCalls = 0
  /\ styleCall = NoCall
  /\ stub = {}
  /\ errorMsg = Null
  /\ refineCalls = EmptyBag
  /\ ServiceIdle

\* the texts the user types into a field
EditValues == {"e"}

FieldEdited ==
  \E i \in 1..Len(view.slides), field \in EditableFields(view.step), value \in EditValues :
    handleUpdateSlide(view.slides[i].id, field, value)

RefineResponses == {TransportError, TextResponse(""), TextResponse("r")}

\* lines 257-263: the click, up to the call the handler awaits
RefineCalls ==
  /\ refineCalls = EmptyBag
  /\ \E i \in 1..Len(view.slides) :
       /\ handleRefinePromptClicked(view.slides[i].id)
       /\ CallDirect([kind |-> "refine",
                      prompt |-> RefinePrompt(view.slides[i].visualDescription)])

RefineAnswers == \E response \in RefineResponses : RefineInvoked(response)

RefineSucceeds ==
  /\ operation.kind = "refine" /\ pc = "done" /\ result.kind = "returned"
  /\ \E c \in BagToSet(refineCalls) : RefineResolved(c, result.value)
  /\ UNCHANGED svcVars

RefineFails ==
  /\ operation.kind = "refine" /\ pc = "done" /\ result.kind = "thrown"
  /\ \E c \in BagToSet(refineCalls) : RefineRejected(c)
  /\ UNCHANGED svcVars

RefineNext ==
  \/ FieldEdited
  \/ handleAddSlide
  \/ RefineCalls
  \/ RefineAnswers
  \/ RefineSucceeds
  \/ RefineFails

RefineSpec == WorkshopInit /\ [][RefineNext]_vars

----------------------------------------------------------------------------
(* C21 *)

\* the step ends a handleRefinePrompt call
RefineEnds == BagCardinality(refineCalls') < BagCardinality(refineCalls)

\* the slide id the call that ends was made for
RefinedId == (CHOOSE c \in BagToSet(refineCalls) : TRUE).id

\* C21: the refinement call is made exactly once, without retry and without
\* wait; when it fails the deck is unchanged and isProcessing is cleared; when
\* it succeeds the visualDescription of the slide it was asked for becomes
\* the result, nothing else of the deck changes, and isProcessing is cleared.
C21_RefineSingleShot ==
  /\ [](operation.kind = "refine" => Len(requests) <= 1 /\ waited = <<>>)
  /\ [][RefineEnds =>
          /\ Len(requests) = 1
          /\ state.isProcessing /\ ~state'.isProcessing
          /\ result.kind = "thrown" => state'.slides = state.slides
          /\ result.kind = "returned" =>
               state'.slides =
                 [i \in 1..Len(state.slides) |->
                    IF state.slides[i].id = RefinedId
                    THEN [state.slides[i] EXCEPT !.visualDescription = result.value]
                    ELSE state.slides[i]]]_vars

\* the description of the planned slide was refined to "r" after the user had
\* added a slide and edited the added slide's description
C21_Witness ==
  /\ operation.kind = "refine" /\ result = Returned("r") /\ refineCalls = EmptyBag
  /\ Len(state.slides) = 2
  /\ state.slides[1].visualDescription = "r"
  /\ state.slides[2].visualDescription = "e"
  /\ ~state.isProcessing

----------------------------------------------------------------------------
(* C26 *)

\* C26: retryOperation waits once before every retry and never before the
\* first attempt; the wait before the k-th retry is the initial delay times
\* 2^(k-1) (3000, 6000 and 12000 ms with the defaults); no wait follows the
\* last failed attempt.
C26_ExponentialBackoff ==
  /\ \A k \in 1..Len(waited) : waited[k] = args.delayMs * 2^(k - 1)
  /\ pc = "invoke" => Len(waited) = Len(invoked)
  /\ pc \in {"delay", "done"} => Len(waited) = Len(invoked) - 1
  /\ (args.retries = DefaultRetries /\ result.kind = "thrown") =>
       waited = <<3000, 6000, 12000>>

\* the default budget is exhausted after three waits
C26_Witness ==
  /\ args = [retries |-> DefaultRetries, delayMs |-> DefaultDelayMs]
  /\ pc = "done" /\ result.kind = "thrown"
  /\ Len(invoked) = DefaultRetries + 1
  /\ Len(waited) = DefaultRetries

----------------------------------------------------------------------------
(* C29 *)

\* the model answers the derivation request with empty text in this step
DeriveAnsweredEmpty ==
  /\ operation.kind = "derive" /\ pc = "invoke"
  /\ requests' # requests
  /\ requests'[Len(requests')].response = TextResponse(Empty)

\* C29: when the custom style is empty and the model answers the derivation
\* request with empty text, generateDesignSystem returns the fixed default
\* phrase, which is not empty: it neither fails, nor retries, nor returns an
\* empty design system.
C29_DeriveDefault ==
  /\ DefaultDesignSystem # Empty
  /\ [][DeriveAnsweredEmpty =>
          /\ pc' = "done"
          /\ result' = Returned(DefaultDesignSystem)]_vars
  /\ [](operation.kind = "derive" /\ result.kind = "returned" => result.value # Empty)

\* the custom style is empty, the first attempt was rejected and the second
\* answered with empty text: the call returned the default phrase
C29_Witness ==
  /\ operation = [kind |-> "derive", prompt |-> DerivePrompt(Empty)]
  /\ state.customStylePrompt = Empty
  /\ Len(invoked) = 2
  /\ requests[Len(requests)].response = TextResponse(Empty)
  /\ pc = "done" /\ result = Returned(DefaultDesignSystem)

----------------------------------------------------------------------------
(* The re-planning scenario: the outline scenario, in which the user also    *)
(* edits the descriptions of the planned slides before going back to the     *)
(* input page and generating the outline again.                              *)

ReplanNext ==
  \/ OutlineNext
  \/ FieldEdited

ReplanSpec == Init /\ [][ReplanNext]_vars

----------------------------------------------------------------------------
(* C27 *)

\* the step ends a handleGeneratePlan call with a plan
OutlineSucceeds == planCalls' < planCalls /\ result.kind = "returned"

\* the records of the answer the plan was parsed from
PlannerRecords == requests[Len(requests)].response.text.body.items

\* C27: when handleGeneratePlan succeeds, the step becomes PLANNING, the deck
\* becomes the planner's records in the planner's order, whatever the deck
\* was before, every slide of it has isGenerating false, no image and no
\* override, the design system becomes the one the planner was given, and
\* isProcessing is false.
C27_PlanInstallsFreshDeck ==
  [][OutlineSucceeds =>
      /\ state'.step = "PLANNING"
      /\ ~state'.isProcessing
      /\ state'.designSystemPrompt = operation.prompt.designSystem
      /\ Len(state'.slides) = Len(PlannerRecords)
      /\ \A i \in 1..Len(PlannerRecords) :
           /\ state'.slides[i].id = PlannerRecords[i].id
           /\ state'.slides[i].visualDescription = PlannerRecords[i].visualDescription
           /\ state'.slides[i].userPromptOverride = Undefined
           /\ state'.slides[i].generatedImageUrl = NoImage
           /\ ~state'.slides[i].isGenerating]_vars

\* the user edited the description of the second slide, went back and
\* generated the outline again: the second plan came from the fallback model
\* and the deck shows the planner's descriptions
C27_Witness ==
  /\ operation.kind = "plan" /\ result.kind = "returned" /\ planCalls = 0
  /\ Len(requests) = 2
  /\ state.step = "PLANNING"
  /\ state.customStylePrompt = <<"a", " ">>
  /\ state.designSystemPrompt = <<"a">>
  /\ Len(state.slides) = 2
  /\ state.slides[2].visualDescription = "v2"

----------------------------------------------------------------------------
(* The first-run scenario: the custom style is empty, the user generates the *)
(* outline and enters the workbench, and does nothing else; every remote     *)
(* call succeeds at its first attempt.                                       *)

\* the planner answers with n records, ids 1..n
FirstRunRecords(n) == [i \in 1..n |-> RawRecord(i, "t", "c", "v")]

FirstRunDeriveResponses == {TextResponse(t) : t \in {Empty} \cup DesignTexts}

FirstRunPlanResponses ==
  {TextResponse(Text(fenced, JsonArray(FirstRunRecords(n)))) :
     fenced \in BOOLEAN, n \in 1..ChainSlides}

FirstRunImageResponses ==
  { PartsResponse(<<TextPart, ImagePart(1)>>),
    PartsResponse(<<ImagePart(2), ImagePart(1)>>) }

FirstRunDerives == \E response \in FirstRunDeriveResponses : DeriveInvoked(response)

FirstRunPlans == \E response \in FirstRunPlanResponses : PlanPrimary(response)

\* lines 174-176, 238-240, 216: a timer runs generateSingleSlideImage, which
\* calls generateSlideImage unless it returns early
FirstRunChainCalls ==
  /\ TimerFired
  /\ IF calls' = calls THEN UNCHANGED svcVars
     ELSE \E c \in BagToSet(calls') :
            /\ CopiesIn(c, calls') > CopiesIn(c, calls)
            /\ StartCall([kind |-> "image", prompt |-> ImagePrompt(c.id, c.designSystem)])

FirstRunSynthesizes == \E response \in FirstRunImageResponses : ImageInvoked(response)

FirstRunNext ==
  \/ GeneratePlanCalls
  \/ FirstRunDerives
  \/ DeriveResolved
  \/ FirstRunPlans
  \/ PlanResolved
  \/ startWorkbench
  \/ FirstRunChainCalls
  \/ FirstRunSynthesizes
  \/ ImageResolved

\* timers fire, the remote model answers, the user clicks
FirstRunSpec == Init /\ [][FirstRunNext]_vars /\ WF_vars(FirstRunNext)

----------------------------------------------------------------------------
(* C22 *)

\* the step starts a call of a service function
CallStarts == pc \in {"idle", "done"} /\ pc' = "invoke"

\* the index of the slide a generateSlideImage call is started for
Position(id) == CHOOSE i \in 1..Len(state.slides) : state.slides[i].id = id

\* C22: with an empty custom style and every remote call succeeding at its
\* first attempt, handleGeneratePlan makes one derive call, then one planner
\* call that is answered by the primary model alone; the auto-chain then makes
\* one generateSlideImage call per slide, in deck order, each starting when
\* the previous one has completed, and ends with every slide rendered.
C22_FirstRunCallCounts ==
  /\ [](Len(invoked) <= 1 /\ Len(requests) <= 1 /\ waited = <<>>)
  /\ [](\A k \in 1..Len(requests) : requests[k].model # FallbackModel \/ operation.kind # "plan")
  /\ [][CallStarts /\ operation'.kind = "derive" =>
          operation.kind = "none" /\ planCalls = 0 /\ planCalls' = 1]_vars
  /\ [][CallStarts /\ operation'.kind = "plan" =>
          operation.kind = "derive" /\ result.kind = "returned" /\ planCalls = 1]_vars
  /\ [][CallStarts /\ operation'.kind = "image" =>
          LET k == Position(operation'.prompt.slide) IN
          /\ calls = EmptyBag /\ timers' = EmptyBag
          /\ BagCardinality(calls') = 1
          /\ Idle(state.slides[k])
          /\ \A i \in 1..(k - 1) : Done(state.slides[i])
          /\ operation.kind = IF k = 1 THEN "plan" ELSE "image"
          /\ k > 1 => operation.prompt.slide = state.slides[k - 1].id]_vars
  /\ <>[](/\ state.step = "WORKBENCH"
          /\ timers = EmptyBag /\ calls = EmptyBag
          /\ operation.kind = "image"
          /\ operation.prompt.slide = state.slides[Len(state.slides)].id
          /\ \A i \in 1..Len(state.slides) : Done(state.slides[i]))

\* a deck of three slides has been rendered by the chain
C22_Witness ==
  /\ Len(state.slides) = 3
  /\ \A i \in 1..3 : Done(state.slides[i]) /\ state.slides[i].id = i
  /\ operation.kind = "image" /\ operation.prompt.slide = 3
  /\ timers = EmptyBag /\ calls = EmptyBag

----------------------------------------------------------------------------
(* The skip scenario: the auto-chain scenario, in which the user also        *)
(* regenerates slides while the chain runs, so that a chain timer can fire   *)
(* for a slide that is rendered or being generated.                          *)

SkipNext ==
  \/ ChainNext
  \/ Regenerate

SkipSpec == ChainInit /\ [][SkipNext]_vars

----------------------------------------------------------------------------
(* C24 *)

\* the timer t fires in this step
TimerFires(t) == CopiesIn(t, timers') < CopiesIn(t, timers)

\* the positions after k of the slides without image that are not generating
LaterIdle(k) == {j \in (k + 1)..Len(state.slides) : Idle(state.slides[j])}

\* C24: when generateSingleSlideImage(id, true) is called for a slide that
\* has an image or is generating, no call is started for that slide; a call is
\* started for the first later slide that has no image and is not generating,
\* and for no other; when there is no such slide nothing is started.
C24_AutoChainSkip ==
  [][\A t \in BagToSet(timers) :
       LET k == FindIndex(state.slides, t.id) IN
       (TimerFires(t) /\ k # 0 /\ ~Idle(state.slides[k])) =>
         IF LaterIdle(k) = {}
         THEN calls' = calls /\ state' = state
         ELSE LET j == CHOOSE j \in LaterIdle(k) : \A i \in LaterIdle(k) : j <= i IN
              /\ calls' = calls (+) SetToBag({[id |-> state.slides[j].id, autoChain |-> TRUE,
                                              designSystem |-> t.designSystem]})
              /\ state' = [state EXCEPT !.slides[j].isGenerating = TRUE]]_vars

\* the chain skipped the second slide, which the user is having generated,
\* and started the call for the third
C24_Witness ==
  /\ Len(state.slides) = 3
  /\ Done(state.slides[1])
  /\ state.slides[2].isGenerating /\ state.slides[2].generatedImageUrl = NoImage
  /\ state.slides[3].isGenerating
  /\ \E c \in BagToSet(calls) : c.id = state.slides[3].id /\ c.autoChain
  /\ \E c \in BagToSet(calls) : c.id = state.slides[2].id /\ ~c.autoChain
  /\ timers = EmptyBag

----------------------------------------------------------------------------
(* C25 *)

\* the chained call c ends in this step, with an image
ChainedSuccess(c) ==
  /\ c.autoChain /\ c.id \notin stub
  /\ CopiesIn(c, calls') < CopiesIn(c, calls)

\* the timers set in this step
TimersSet == {t \in BagToSet(timers') : CopiesIn(t, timers') > CopiesIn(t, timers)}

\* C25: after a chained call succeeded, when some later slide has
\* no image and is not generating, the chain goes on to the first such slide
\* (the step sets a timer whose call will generate it), also when the slide
\* that immediately follows has an image or is generating.
C25_ChainAdvancesToNextUngenerated ==
  [][\A c \in BagToSet(calls) :
       LET k == FindIndex(state.slides, c.id) IN
       (ChainedSuccess(c) /\ LaterIdle(k) # {}) =>
         LET j == CHOOSE j \in LaterIdle(k) : \A i \in LaterIdle(k) : j <= i IN
         \E t \in TimersSet : SkipTarget(state'.slides, t.id) = state.slides[j].id]_vars

----------------------------------------------------------------------------
(* The workshop scenario: a planned deck on the outline page; the user edits *)
(* fields, adds one slide, refines descriptions, enters and leaves the       *)
(* workbench, regenerates slides and updates the global style while the      *)
(* auto-chain runs.  The deck is never planned again.  What the remote calls *)
(* answer is left open.                                                      *)

\* the user adds a slide to the planned deck
SlideAdded == Len(state.slides) <= Len(PlannedDeck) /\ handleAddSlide

\* what refinePrompt does is left open
RefineStart ==
  /\ refineCalls = EmptyBag
  /\ \E i \in 1..Len(view.slides) : handleRefinePromptClicked(view.slides[i].id)
  /\ UNCHANGED svcVars

RefinedTexts == {"r"}

RefineSuccess ==
  /\ \E c \in BagToSet(refineCalls), refined \in RefinedTexts : RefineResolved(c, refined)
  /\ UNCHANGED svcVars

RefineFailure ==
  /\ \E c \in BagToSet(refineCalls) : RefineRejected(c)
  /\ UNCHANGED svcVars

\* updateDesignSystem resolves with a new design system
StyleUpdated == UpdateGlobalStyleResolved(<<"b">>) /\ UNCHANGED svcVars

WorkshopNext ==
  \/ FieldEdited
  \/ SlideAdded
  \/ RefineStart
  \/ RefineSuccess
  \/ RefineFailure
  \/ startWorkbench
  \/ BackToPlanning
  \/ TimerFire
  \/ SynthesisSucceeds
  \/ SynthesisFails
  \/ Regenerate
  \/ UpdateGlobalStyleStart
  \/ StyleUpdated
  \/ UpdateGlobalStyleFailure

WorkshopSpec == WorkshopInit /\ [][WorkshopNext]_vars

----------------------------------------------------------------------------
(* C23 *)

\* the step is an edit of userPromptOverride fields on the workbench page: it
\* changes nothing else
OverrideEdited ==
  /\ state.step = "WORKBENCH"
  /\ Len(state'.slides) = Len(state.slides)
  /\ state' = [state EXCEPT !.slides =
                 [i \in 1..Len(@) |->
                    [@[i] EXCEPT !.userPromptOverride = state'.slides[i].userPromptOverride]]]
  /\ UNCHANGED <<isUpdatingStyle, timers, calls, planCalls, styleCall, errorMsg, refineCalls>>

\* C23: a slide's userPromptOverride changes only in a step that is a user
\* edit of that field; every other operation (a call started, succeeded or
\* failed, refinement, the style update, entering and leaving the workbench)
\* leaves the override of every slide as it is, and an added slide has none.
C23_OverrideNeverCleared ==
  [][/\ Len(state'.slides) >= Len(state.slides)
     /\ \A i \in 1..Len(state'.slides) :
          IF i <= Len(state.slides)
          THEN state'.slides[i].userPromptOverride # state.slides[i].userPromptOverride
                 => OverrideEdited
          ELSE state'.slides[i].userPromptOverride = Undefined]_vars

\* the first slide keeps its override after it was rendered under the updated
\* design system, the user went back to the outline, added a slide and had
\* the description refined
C23_Witness ==
  /\ state.step = "PLANNING"
  /\ Len(state.slides) = 2
  /\ state.slides[1].userPromptOverride = "e"
  /\ state.slides[1].visualDescription = "r"
  /\ Done(state.slides[1])
  /\ state.designSystemPrompt = <<"b">>
  /\ timers = EmptyBag /\ calls = EmptyBag /\ refineCalls = EmptyBag

----------------------------------------------------------------------------
(* C30 *)

\* C30: apart from the replacement of the deck by a plan, no operation
\* (field edit, added slide, call started, succeeded or failed, refinement,
\* style update, entering the workbench) deletes or reorders slides: the deck
\* never gets shorter and every slide keeps its position and its id.
C30_SlidesNeverDeleted ==
  [][/\ Len(state'.slides) >= Len(state.slides)
     /\ \A i \in 1..Len(state.slides) : state'.slides[i].id = state.slides[i].id]_vars

\* the planned slide is still first, and the added slide second, while the
\* second is being generated by the chain after the first was rendered and
\* edited
C30_Witness ==
  /\ state.step = "WORKBENCH"
  /\ Len(state.slides) = 2
  /\ state.slides[1].id = PlannedDeck[1].id
  /\ state.slides[2].id = PlannedDeck[1].id + 1
  /\ Done(state.slides[1])
  /\ state.slides[1].visualDescription = "e"
  /\ state.slides[2].isGenerating
  /\ \E c \in BagToSet(calls) : c.id = state.slides[2].id /\ c.autoChain

----------------------------------------------------------------------------
(* C28 *)

\* the positions of the slides that are in the deck before and after the step
Kept == {i \in 1..Len(state.slides) :
           i <= Len(state'.slides) /\ state'.slides[i].id = state.slides[i].id}

\* C28: an image is written only into a slide that a synthesis call was
\* started for and has not ended for (the slide is generating when the image
\* arrives), and the end of a call stops a slide generating only when no
\* other call for it remains:
\* a call that was started for a slide of an earlier deck writes neither its
\* image nor its status into the slide of the same id of the present deck.
C28_ImagesOnlyFromOwnSynthesis ==
  [][\A i \in Kept :
       /\ (/\ state'.slides[i].generatedImageUrl # NoImage
           /\ state'.slides[i].generatedImageUrl # state.slides[i].generatedImageUrl)
            => state.slides[i].isGenerating
       /\ (/\ BagCardinality(calls') < BagCardinality(calls)
           /\ state.slides[i].isGenerating /\ ~state'.slides[i].isGenerating)
            => \A c \in BagToSet(calls') : c.id # state.slides[i].id]_vars

----------------------------------------------------------------------------
(* C31 *)

\* the generateSlideImage call for the slide id ends in this step, thrown
SynthesisThrown(id) ==
  /\ SynthesisEnds
  /\ operation.kind = "image" /\ operation.prompt.slide = id
  /\ result.kind = "thrown"

\* C31: when a generateSlideImage call fails, the slide it was made for
\* keeps its image and its other fields, and only its isGenerating returns
\* to false; the other slides are unchanged; in particular a slide that had
\* an image before the call still has that image.
C31_FailureKeepsImage ==
  [][\A k \in 1..Len(state.slides) :
       SynthesisThrown(state.slides[k].id) =>
         /\ state'.slides = [state.slides EXCEPT ![k].isGenerating = FALSE]
         /\ state.slides[k].isGenerating
         /\ state'.slides[k].generatedImageUrl = state.slides[k].generatedImageUrl]_vars

\* the regeneration of the second slide, which the chain had rendered, has
\* just failed after all its attempts: the slide shows its image
C31_Witness ==
  /\ operation.kind = "image" /\ operation.prompt.slide = state.slides[2].id
  /\ pc = "done" /\ result.kind = "thrown"
  /\ Len(invoked) = DefaultRetries + 1
  /\ calls = EmptyBag /\ timers = EmptyBag
  /\ state.slides[2].generatedImageUrl = DataUrl(2)
  /\ ~state.slides[2].isGenerating
  /\ Done(state.slides[1])

----------------------------------------------------------------------------
(* C32 *)

\* the manual call for the slide at position k
ManualCall(k) ==
  [id |-> state.slides[k].id, autoChain |-> FALSE,
   designSystem |-> state.designSystemPrompt]

\* the regenerate button of the slide at position k starts the call for it
RegenerateStarts(k) == Regenerate /\ calls' = calls (+) SetToBag({ManualCall(k)})

\* C32: the regenerate button of a slide, with or without image, starts a
\* call for that slide; a step that starts a manual call starts that call
\* alone, marks the slide of the call generating and changes no other slide
\* and no timer; a step that ends a manual call, with an image or with an
\* error, sets no timer and changes no slide but the slide of the call.
C32_ManualDoesNotChain ==
  /\ [](\A k \in 1..Len(state.slides) :
          (/\ state.step = "WORKBENCH"
           /\ ~state.slides[k].isGenerating
           /\ Pending < MaxPending) => ENABLED RegenerateStarts(k))
  /\ [][\A c \in BagToSet(calls) \cup BagToSet(calls') :
          ~c.autoChain =>
            LET k == FindIndex(state.slides, c.id) IN
            /\ CopiesIn(c, calls') > CopiesIn(c, calls) =>
                 /\ k # 0
                 /\ calls' = calls (+) SetToBag({c})
                 /\ state'.slides = [state.slides EXCEPT ![k].isGenerating = TRUE]
                 /\ timers' = timers
            /\ CopiesIn(c, calls') < CopiesIn(c, calls) =>
                 /\ calls' = calls (-) SetToBag({c})
                 /\ timers' = timers
                 /\ Len(state'.slides) = Len(state.slides)
                 /\ \A i \in 1..Len(state.slides) :
                      i # k => state'.slides[i] = state.slides[i]]_vars

\* the chain ended at the first slide, for which the synthesizer fails; the
\* manual call for the second slide has succeeded and nothing is scheduled
\* for the third, which the synthesizer would render
C32_Witness ==
  /\ Len(state.slides) = 3
  /\ stub = {1}
  /\ Idle(state.slides[1])
  /\ Done(state.slides[2])
  /\ Idle(state.slides[3])
  /\ timers = EmptyBag /\ calls = EmptyBag

----------------------------------------------------------------------------
(* The edit scenario: handleUpdateSlide is called with any id, present in    *)
(* the deck or not, any text field and any value, on the decks of the        *)
(* add-slide scenario.                                                       *)

\* the ids handleUpdateSlide is called with
EditIds == 1..MaxPlanId

\* the text fields of the model's slides
TextFields == {"visualDescription", "userPromptOverride"}

EditNext ==
  \E id \in EditIds, field \in TextFields, value \in EditValues :
    handleUpdateSlide(id, field, value)

EditSpec == AddInit /\ [][EditNext]_vars

----------------------------------------------------------------------------
(* C33 *)

\* what the claim says of the state after handleUpdateSlide(id, field, value)
EditFrame(id, field, value) ==
  /\ Len(state'.slides) = Len(state.slides)
  /\ \A i \in 1..Len(state.slides) :
       state'.slides[i] = IF state.slides[i].id = id
                          THEN [state.slides[i] EXCEPT ![field] = value]
                          ELSE state.slides[i]
  /\ state'.step = state.step
  /\ state'.designSystemPrompt = state.designSystemPrompt
  /\ state'.customStylePrompt = state.customStylePrompt
  /\ state'.isProcessing = state.isProcessing
  /\ (\A i \in 1..Len(state.slides) : state.slides[i].id # id) => state' = state
  /\ UNCHANGED <<isUpdatingStyle, timers, calls, planCalls, styleCall, errorMsg, refineCalls>>

\* C33: handleUpdateSlide(id, field, value) can always be called, and what
\* it does is always this: the named field of the slide with that id takes
\* the value; the other fields of that slide, the other slides, the order and
\* the length of the deck, the design system and the step are as before; with
\* an id that is not in the deck nothing changes.
C33_FieldEditFrame ==
  \A id \in EditIds, field \in TextFields, value \in EditValues :
    /\ ENABLED handleUpdateSlide(id, field, value)
    /\ ~ENABLED (handleUpdateSlide(id, field, value) /\ ~EditFrame(id, field, value))

\* the override of the first of two slides was edited: its description and
\* its image, and the second slide, are as the deck had them
C33_Witness ==
  /\ Len(state.slides) = 2
  /\ state.slides[1] = [NewSlide(MaxPlanId) EXCEPT !.userPromptOverride = "e",
                                                  !.generatedImageUrl = DataUrl(1)]
  /\ state.slides[2] = NewSlide(1)

----------------------------------------------------------------------------
(* The fair skip scenario: the skip scenario, in which every timer fires and *)
(* every call of the chain is answered, whatever the user does meanwhile.    *)

\* the synthesizer answers a call of the chain
ChainedAnswers ==
  \E c \in BagToSet(calls) :
    /\ c.autoChain
    /\ IF c.id \in stub THEN SynthesisFailure(c)
       ELSE \E imageUrl \in Images : SynthesisSuccess(c, imageUrl)

SkipFairSpec ==
  /\ ChainInit /\ [][SkipNext]_vars
  /\ WF_vars(TimerFire)
  /\ WF_vars(ChainedAnswers)

----------------------------------------------------------------------------
(* C34 *)

\* how far the chain is: 0 when it has ended, 2k - 1 when its timer is
\* pending for the slide at position k, 2k when its call for that slide is
\* in flight
ChainProgress ==
  IF timers # EmptyBag
  THEN 2 * Position((CHOOSE t \in BagToSet(timers) : TRUE).id) - 1
  ELSE IF ChainedInFlight # {}
       THEN 2 * Position((CHOOSE c \in ChainedInFlight : TRUE).id)
       ELSE 0

\* C34: the auto-chain ends: eventually no chained call is pending or in
\* flight, for good; until then the chain is one timer or one call, every
\* step of it (a timer fired, a slide skipped, a call succeeded) takes it to a
\* later point of the deck, and once ended it does not start again: a chain
\* starts at most one call per slide.
C34_AutoChainTerminates ==
  /\ [](BagCardinality(timers) <= 1)
  /\ [](\A c, d \in ChainedInFlight : c = d /\ CopiesIn(c, calls) = 1)
  /\ [](timers = EmptyBag \/ ChainedInFlight = {})
  /\ [][\/ ChainProgress' = ChainProgress
        \/ ChainProgress' = 0
        \/ ChainProgress # 0 /\ ChainProgress' > ChainProgress]_vars
  /\ <>[](timers = EmptyBag /\ ChainedInFlight = {})

\* the chain has ended after it skipped the second slide, which the user was
\* having generated, and rendered the third
C34_Witness ==
  /\ Len(state.slides) = 3
  /\ stub = {2}
  /\ \A i \in {1, 3} : Done(state.slides[i])
  /\ Idle(state.slides[2])
  /\ timers = EmptyBag /\ calls = EmptyBag

====
